---- MODULE Spec2Model ----
(***************************************************************************)
(* Entity-resolution matcher of ditat_etl                                   *)
(* (ditat_etl/utils/entity_resolution/matcher.py) and the normalizers it    *)
(* calls (ditat_etl/url/functions.py, ditat_etl/utils/phones.py).           *)
(*                                                                          *)
(* Python strings are sequences of one-character strings, so that the       *)
(* normalizers are computed character by character as the code does.        *)
(***************************************************************************)
EXTENDS Integers, Sequences, FiniteSets, TLC

(***************************************************************************)
(* Python values                                                            *)
(***************************************************************************)
\* Python's None, and pandas' null (NaN/None) in a column: a value no string
\* equals (every string is a sequence of single characters).
None == << "None" >>

(***************************************************************************)
(* Characters and strings                                                   *)
(***************************************************************************)
\* The characters the model's strings are written with, in code-point order.
Alphabet ==
    << " ", "!", "\"", "#", "%", "'", "(", ")", "+", ",", "-", ".", "/",
       "0", "1", "2", "3", "4", "5", "6", "7", "8", "9",
       ":", "?", "@",
       "A", "B", "C", "D", "E", "F", "G", "H", "I", "J", "K", "L", "M",
       "N", "O", "P", "Q", "R", "S", "T", "U", "V", "W", "X", "Y", "Z",
       "[", "]", "_",
       "a", "b", "c", "d", "e", "f", "g", "h", "i", "j", "k", "l", "m",
       "n", "o", "p", "q", "r", "s", "t", "u", "v", "w", "x", "y", "z",
       "|" >>

Chars == { Alphabet[i] : i \in 1..Len(Alphabet) }

\* ord(c), up to an order-preserving renumbering of the code points.
Ord == [ c \in Chars |-> CHOOSE i \in 1..Len(Alphabet) : Alphabet[i] = c ]

UpperCase == << "A", "B", "C", "D", "E", "F", "G", "H", "I", "J", "K", "L", "M",
                "N", "O", "P", "Q", "R", "S", "T", "U", "V", "W", "X", "Y", "Z" >>
LowerCase == << "a", "b", "c", "d", "e", "f", "g", "h", "i", "j", "k", "l", "m",
                "n", "o", "p", "q", "r", "s", "t", "u", "v", "w", "x", "y", "z" >>
Uppers == { UpperCase[i] : i \in 1..Len(UpperCase) }
Lowers == { LowerCase[i] : i \in 1..Len(LowerCase) }
Letters == Uppers \cup Lowers
Digits == { "0", "1", "2", "3", "4", "5", "6", "7", "8", "9" }

\* str.lower() on one character.
LowerChar(c) ==
    IF c \in Uppers
    THEN LowerCase[CHOOSE i \in 1..Len(UpperCase) : UpperCase[i] = c]
    ELSE c

\* str.upper() on one character.
UpperChar(c) ==
    IF c \in Lowers
    THEN UpperCase[CHOOSE i \in 1..Len(LowerCase) : LowerCase[i] = c]
    ELSE c

\* str.lower()
Lower(s) == [ i \in 1..Len(s) |-> LowerChar(s[i]) ]

\* str.upper()
Upper(s) == [ i \in 1..Len(s) |-> UpperChar(s[i]) ]

\* s[i:] and s[:i] with 1-based positions
Drop(s, n) == SubSeq(s, n + 1, Len(s))
Take(s, n) == SubSeq(s, 1, n)

\* s.startswith(p)
StartsWith(s, p) == Len(p) <= Len(s) /\ Take(s, Len(p)) = p

\* sub occurs in s at position i
OccursAt(s, sub, i) ==
    i + Len(sub) - 1 <= Len(s) /\ SubSeq(s, i, i + Len(sub) - 1) = sub

\* sub in s
Contains(s, sub) == \E i \in 1..Len(s) : OccursAt(s, sub, i)

\* s.find(sub) as a 1-based position, 0 when absent
Find(s, sub) ==
    IF Contains(s, sub)
    THEN CHOOSE i \in 1..Len(s) :
            OccursAt(s, sub, i) /\ \A j \in 1..(i - 1) : ~OccursAt(s, sub, j)
    ELSE 0

\* s.replace(old, ""), left to right, non-overlapping
RECURSIVE Remove(_, _)
Remove(s, old) ==
    IF s = << >> THEN << >>
    ELSE IF OccursAt(s, old, 1) THEN Remove(Drop(s, Len(old)), old)
    ELSE << Head(s) >> \o Remove(Tail(s), old)

\* Python's < on strings: lexicographic on code points, a proper prefix first
StrLess(a, b) ==
    LET differ == { i \in 1..Len(a) : i <= Len(b) /\ a[i] # b[i] }
    IN  IF differ = {} THEN Len(a) < Len(b)
        ELSE LET first == CHOOSE i \in differ : \A j \in differ : i <= j
             IN  Ord[a[first]] < Ord[b[first]]

\* str(v): a null reads "None"
StrOf(v) == IF v = None THEN << "N", "o", "n", "e" >> ELSE v

\* every character of s is in set
AllIn(s, set) == \A i \in 1..Len(s) : s[i] \in set

(***************************************************************************)
(* url/functions.py: extract_domain                                         *)
(***************************************************************************)
\* The character classes of the regex of line 13 and of urllib's scheme_chars.
EmailLocalChars == Letters \cup Digits \cup { ".", "_", "%", "+", "-" }
EmailDomainChars == Letters \cup Digits \cup { ".", "-" }
EmailTldChars == Letters \cup { "|" }
WordChars == Letters \cup Digits \cup { "_" }
SchemeChars == Letters \cup Digits \cup { "+", "-", "." }

\* re.fullmatch(r'\b[A-Za-z0-9._%+-]+@[A-Za-z0-9.-]+\.[A-Z|a-z]{2,}\b', s)
EmailFullMatch(s) ==
    \E a \in 1..Len(s) : \E d \in 1..Len(s) :
        /\ s[a] = "@"
        /\ s[d] = "."
        /\ 1 < a
        /\ a + 1 < d
        /\ d + 2 <= Len(s)
        /\ AllIn(SubSeq(s, 1, a - 1), EmailLocalChars)
        /\ AllIn(SubSeq(s, a + 1, d - 1), EmailDomainChars)
        /\ AllIn(SubSeq(s, d + 1, Len(s)), EmailTldChars)
        /\ s[1] \in WordChars
        /\ s[Len(s)] \in WordChars

\* s.split('@')[1]
AfterFirstAt(s) ==
    LET rest == Drop(s, Find(s, << "@" >>))
        nxt == Find(rest, << "@" >>)
    IN  IF nxt = 0 THEN rest ELSE Take(rest, nxt - 1)

\* urlparse(u).netloc (urllib.parse.urlsplit): the scheme is what precedes the
\* first ':' when it is made of scheme characters; the netloc is what follows
\* a '//' at the start of the rest, up to the first '/', '?' or '#'.
Netloc(u) ==
    LET i == Find(u, << ":" >>)
        hasScheme == i > 1 /\ AllIn(Take(u, i - 1), SchemeChars)
        rest == IF hasScheme THEN Drop(u, i) ELSE u
        body == Drop(rest, 2)
        ends == { k \in 1..Len(body) : body[k] \in { "/", "?", "#" } }
        delim == IF ends = {} THEN Len(body) + 1
                 ELSE CHOOSE k \in ends : \A m \in ends : k <= m
    IN  IF StartsWith(rest, << "/", "/" >>) THEN Take(body, delim - 1) ELSE << >>

HttpPrefix == << "h", "t", "t", "p" >>
HttpSlashes == << "h", "t", "t", "p", ":", "/", "/" >>
Www == << "w", "w", "w", "." >>

\* The email branch of extract_domain (lines 12-17).
extract_domain_email(s) ==
    IF EmailFullMatch(s) /\ AfterFirstAt(s) # << >>
    THEN AfterFirstAt(s)
    ELSE None

\* The URL branch of extract_domain (lines 18-22).
extract_domain_url(s) ==
    LET u == IF ~StartsWith(s, HttpPrefix) THEN HttpSlashes \o s ELSE s
        domain == Netloc(Remove(u, Www))
    IN  IF domain # << >> /\ Contains(domain, << "." >>) THEN domain ELSE None

\* lines 11-22, after url_or_email = str(url_or_email)
extract_domain_str(s) ==
    IF Contains(s, << "@" >>)
    THEN extract_domain_email(s)
    ELSE extract_domain_url(s)

extract_domain(url_or_email) == extract_domain_str(StrOf(url_or_email))

(***************************************************************************)
(* Matcher.clean_field                                                      *)
(***************************************************************************)
\* replacements of line 109
Replacements == { ",", ".", "\"", "'", "!", "?", "/" }

\* x.replace(r, "") for every r in replacements: all are single characters
RECURSIVE RemoveChars(_, _)
RemoveChars(s, set) ==
    IF s = << >> THEN << >>
    ELSE IF Head(s) \in set THEN RemoveChars(Tail(s), set)
    ELSE << Head(s) >> \o RemoveChars(Tail(s), set)

\* x.split(): the maximal runs of non-whitespace characters, in order
RECURSIVE SplitWs(_, _)
SplitWs(s, cur) ==
    IF s = << >> THEN (IF cur = << >> THEN << >> ELSE << cur >>)
    ELSE IF Head(s) = " "
         THEN (IF cur = << >> THEN << >> ELSE << cur >>) \o SplitWs(Tail(s), << >>)
         ELSE SplitWs(Tail(s), Append(cur, Head(s)))

\* insert a string into a sorted list of strings
RECURSIVE InsertSorted(_, _)
InsertSorted(t, list) ==
    IF list = << >> THEN << t >>
    ELSE IF StrLess(t, Head(list)) THEN << t >> \o list
    ELSE << Head(list) >> \o InsertSorted(t, Tail(list))

\* the list left in the order of the words
Unsorted(list) == list

\* sorted(x) for a list of strings
RECURSIVE Sorted(_)
Sorted(list) ==
    IF list = << >> THEN << >>
    ELSE InsertSorted(Head(list), Sorted(Tail(list)))

\* str(x) for a list of strings holding neither quotes nor backslashes:
\* "['a', 'b']"
RECURSIVE ReprItems(_)
ReprItems(list) ==
    IF list = << >> THEN << >>
    ELSE << "'" >> \o Head(list) \o << "'" >>
         \o (IF Tail(list) = << >> THEN << >> ELSE << ",", " " >>)
         \o ReprItems(Tail(list))

ReprList(list) == << "[" >> \o ReprItems(list) \o << "]" >>

clean_field(x) ==
    ReprList(Sorted(SplitWs(RemoveChars(Lower(x), Replacements), << >>)))

(***************************************************************************)
(* utils/phones.py: Phone.format                                            *)
(***************************************************************************)
\* Phone.CODES, the country table read from country_codes.csv: the rows for
\* two countries (columns iso, iso_long, country, all lower case).
CODES ==
    { [ iso |-> << "u", "s" >>, iso_long |-> << "u", "s", "a" >>, country |-> << "u", "n", "i", "t", "e", "d", " ", "s", "t", "a", "t", "e", "s" >> ],
      [ iso |-> << "g", "b" >>, iso_long |-> << "g", "b", "r" >>, country |-> << "u", "n", "i", "t", "e", "d", " ", "k", "i", "n", "g", "d", "o", "m" >> ] }

\* The phonenumbers library's metadata for the regions of CODES: the region
\* code, its country calling code and its national prefix.
Regions ==
    { [ region |-> << "U", "S" >>, calling |-> << "1" >>, prefix |-> << >> ],
      [ region |-> << "G", "B" >>, calling |-> << "4", "4" >>, prefix |-> << "0" >> ] }

\* the digits of a number, its punctuation dropped
RECURSIVE DigitsOf(_)
DigitsOf(s) ==
    IF s = << >> THEN << >>
    ELSE IF Head(s) \in Digits THEN << Head(s) >> \o DigitsOf(Tail(s))
    ELSE DigitsOf(Tail(s))

\* phonenumbers.format_number(phonenumbers.parse(number, region), E164), or
\* None where the library raises NumberParseException: a number written with
\* a leading '+' carries its own calling code and is parsed whatever the
\* region; any other number needs a region the library knows.
ParseAndFormat(number, region) ==
    LET digits == DigitsOf(number)
        plus == RemoveChars(number, { " ", "(" }) # << >>
                /\ Head(RemoveChars(number, { " ", "(" })) = "+"
        intl == { r \in Regions : StartsWith(digits, r.calling) }
        home == { r \in Regions : r.region = region }
        r == IF plus THEN CHOOSE x \in intl : TRUE ELSE CHOOSE x \in home : TRUE
        national ==
            IF plus THEN Drop(digits, Len(r.calling))
            ELSE IF r.prefix # << >> /\ StartsWith(digits, r.prefix)
                 THEN Drop(digits, Len(r.prefix))
                 ELSE digits
    IN  IF Len(digits) < 2 THEN None
        ELSE IF plus /\ intl = {} THEN None
        ELSE IF ~plus /\ home = {} THEN None
        ELSE IF Len(national) < 2 \/ Len(national) > 17 THEN None
        ELSE << "+" >> \o r.calling \o national

\* lines 18-22: the country resolved through CODES, or left as given
ResolveCountry(country) ==
    LET c == Lower(StrOf(country))
    IN  IF \E row \in CODES : row.iso_long = c
        THEN (CHOOSE row \in CODES : row.iso_long = c).iso
        ELSE IF \E row \in CODES : row.country = c
        THEN (CHOOSE row \in CODES : row.country = c).iso
        ELSE c

\* Phone.format(phone, country)
PhoneFormat(phone, country) ==
    IF phone = None THEN None
    ELSE ParseAndFormat(phone, Upper(ResolveCountry(country)))

(***************************************************************************)
(* Record sets                                                              *)
(***************************************************************************)
\* A column name is a tuple of strings, so that f"{column}_{name}" is the
\* tuple with name appended: <<"website">> suffixed with "new" is
\* <<"website", "new">>.
Col(c) == << c >>
Suffixed(col, name) == col \o << name >>

\* One row of a caller's DataFrame.
Row(id, website, phone, country, street, name) ==
    (Col("id") :> id) @@ (Col("website") :> website) @@ (Col("phone") :> phone)
    @@ (Col("country") :> country) @@ (Col("street") :> street)
    @@ (Col("name") :> name)

\* Two record sets describing overlapping organisations under different
\* spellings, with missing values.
\*   TableX: 1  "http://www.acme.com"  "555-1234"       "US"              "1 Main St."   "Acme Corp LLC"
\*           2  "bob@gmail.com"        null             null              "2 Side St"    "Bob's Pub"
\*           3  null                   "020 7946 0018"  "United Kingdom"  "5 High Road"  "Corp. Acme LLC"
\*   TableY: a  "acme.com/about"       "+1 555 1234"    null              "Main St 1"    "LLC, Acme Corp."
\*           b  "gmail.com"            "(020) 79460018" "gbr"             "High Road 5"  "Pub"
\*        null  "localhost"            null             "Zyzzania"        "side st 2"    "BOBS PUB"
\*   TableZ: 7  "www.acme.com"         null             null              "1 main st"    "ACME CORP LLC"
\*           7  "acme.com"             null             null              "St. Main 1"   "acme corp llc"
\*           7  null                   null             null              null           null
\* The third row of TableY has no id. TableZ holds one record on three rows (the id 7), the third row with no
\* value at all.
TableX ==
    << Row(<< "1" >>,
           << "h", "t", "t", "p", ":", "/", "/", "w", "w", "w", ".", "a", "c", "m", "e", ".", "c", "o", "m" >>,
           << "5", "5", "5", "-", "1", "2", "3", "4" >>, << "U", "S" >>,
           << "1", " ", "M", "a", "i", "n", " ", "S", "t", "." >>,
           << "A", "c", "m", "e", " ", "C", "o", "r", "p", " ", "L", "L", "C" >>),
       Row(<< "2" >>,
           << "b", "o", "b", "@", "g", "m", "a", "i", "l", ".", "c", "o", "m" >>,
           None, None,
           << "2", " ", "S", "i", "d", "e", " ", "S", "t" >>,
           << "B", "o", "b", "'", "s", " ", "P", "u", "b" >>),
       Row(<< "3" >>,
           None,
           << "0", "2", "0", " ", "7", "9", "4", "6", " ", "0", "0", "1", "8" >>,
           << "U", "n", "i", "t", "e", "d", " ", "K", "i", "n", "g", "d", "o", "m" >>,
           << "5", " ", "H", "i", "g", "h", " ", "R", "o", "a", "d" >>,
           << "C", "o", "r", "p", ".", " ", "A", "c", "m", "e", " ", "L", "L", "C" >>) >>

TableY ==
    << Row(<< "a" >>,
           << "a", "c", "m", "e", ".", "c", "o", "m", "/", "a", "b", "o", "u", "t" >>,
           << "+", "1", " ", "5", "5", "5", " ", "1", "2", "3", "4" >>, None,
           << "M", "a", "i", "n", " ", "S", "t", " ", "1" >>,
           << "L", "L", "C", ",", " ", "A", "c", "m", "e", " ", "C", "o", "r", "p", "." >>),
       Row(<< "b" >>,
           << "g", "m", "a", "i", "l", ".", "c", "o", "m" >>,
           << "(", "0", "2", "0", ")", " ", "7", "9", "4", "6", "0", "0", "1", "8" >>, << "g", "b", "r" >>,
           << "H", "i", "g", "h", " ", "R", "o", "a", "d", " ", "5" >>,
           << "P", "u", "b" >>),
       Row(None,
           << "l", "o", "c", "a", "l", "h", "o", "s", "t" >>,
           None, << "Z", "y", "z", "z", "a", "n", "i", "a" >>,
           << "s", "i", "d", "e", " ", "s", "t", " ", "2" >>,
           << "B", "O", "B", "S", " ", "P", "U", "B" >>) >>

TableZ ==
    << Row(<< "7" >>,
           << "w", "w", "w", ".", "a", "c", "m", "e", ".", "c", "o", "m" >>,
           None, None,
           << "1", " ", "m", "a", "i", "n", " ", "s", "t" >>,
           << "A", "C", "M", "E", " ", "C", "O", "R", "P", " ", "L", "L", "C" >>),
       Row(<< "7" >>,
           << "a", "c", "m", "e", ".", "c", "o", "m" >>,
           None, None,
           << "S", "t", ".", " ", "M", "a", "i", "n", " ", "1" >>,
           << "a", "c", "m", "e", " ", "c", "o", "r", "p", " ", "l", "l", "c" >>),
       Row(<< "7" >>, None, None, None, None, None) >>

Tables == { TableX, TableY, TableZ }

\* The side names callers pass.
Names == { "left", "right", "new" }

\* What a caller passes for a role: a column of its data, or None.
Roles(domain, phone, country, address, entity_name) ==
    [ index |-> Col("id"),
      domain |-> IF domain THEN Col("website") ELSE None,
      phone |-> IF phone THEN Col("phone") ELSE None,
      country |-> IF country THEN Col("country") ELSE None,
      address |-> IF address THEN Col("street") ELSE None,
      entity_name |-> IF entity_name THEN Col("name") ELSE None ]

RoleArgs ==
    { Roles(FALSE, FALSE, FALSE, FALSE, FALSE),
      Roles(TRUE, FALSE, FALSE, FALSE, FALSE),
      Roles(FALSE, TRUE, FALSE, FALSE, FALSE),
      Roles(FALSE, TRUE, TRUE, FALSE, FALSE),
      Roles(TRUE, FALSE, FALSE, FALSE, TRUE),
      Roles(FALSE, FALSE, FALSE, TRUE, TRUE),
      Roles(TRUE, TRUE, FALSE, TRUE, TRUE),
      Roles(TRUE, TRUE, TRUE, TRUE, TRUE) }

\* The values of a column in the record sets.
ValuesOf(col) ==
    { t[i][Col(col)] : t \in Tables, i \in 1..3 } \ { None }

\* The values a normalizer may be applied to: those of the column, and the
\* text of a null.
Applied(col) == ValuesOf(col) \cup { StrOf(None) }

\* The normalizers applied to the values of the record sets.
extract_domain_of == [ v \in Applied("website") |-> extract_domain(v) ]
clean_field_of ==
    [ v \in Applied("street") \cup Applied("name") |-> clean_field(v) ]
Phone_format_of ==
    [ v \in (ValuesOf("phone") \cup { None }) \X (ValuesOf("country") \cup { None }) |->
        PhoneFormat(v[1], v[2]) ]

(***************************************************************************)
(* Frame                                                                    *)
(***************************************************************************)
\* DataFrame.add_suffix(f'_{name}')
AddSuffix(data, name) ==
    [ i \in 1..Len(data) |->
        [ c \in { Suffixed(k, name) : k \in DOMAIN data[i] } |->
            data[i][Take(c, Len(c) - 1)] ] ]

\* the role attribute without the test of the argument: f"{arg}_{name}"
RoleAttrUnconditional(arg, name) == Suffixed(arg, name)

\* f"{locals()[attr]}_{name}" if locals()[attr] else None
RoleAttr(arg, name) ==
    IF arg # None /\ arg # << >> THEN Suffixed(arg, name) ELSE None

\* The caller's DataFrame once Frame.__init__ has run: self.data is a copy of
\* it (line 26) and add_suffix returns a new DataFrame (line 37).
DataAfterFrame(data) == data

\* Frame.__init__
Frame(data, name, roles) ==
    [ data |-> AddSuffix(data, name),
      name |-> name,
      index |-> RoleAttr(roles.index, name),
      domain |-> RoleAttr(roles.domain, name),
      address |-> RoleAttr(roles.address, name),
      phone |-> RoleAttr(roles.phone, name),
      country |-> RoleAttr(roles.country, name),
      entity_name |-> RoleAttr(roles.entity_name, name),
      suffix |-> << name >> ]

(***************************************************************************)
(* Matcher                                                                  *)
(***************************************************************************)
\* Python objects held in attributes and returned by calls.
Unset == [ kind |-> "unset" ]
PyNone == [ kind |-> "None" ]
Table(cols, rows) == [ kind |-> "table", cols |-> cols, rows |-> rows ]

VARIABLES
    _counter,            \* self._counter
    _names,              \* self._names
    frame__,             \* k |-> self.frame__k, for the k that are set
    exact_domain,        \* self.exact_domain
    features_processed,  \* self.features_processed
    feature_matches,     \* f |-> self.{f}_matches
    all_matches,         \* self.all_matches
    results,             \* self.results
    call,                \* the last call made on the Matcher
    raised,              \* the exception the last call raised, or "none"
    returned,            \* the value the last call returned
    runs,                \* the number of runs of the body of run so far
    trial,               \* a normalizer called on its own: the function, and
                         \* the raw values followed by what each call returned
    proxies_file,        \* what the file at Url.proxies_filepath holds
    url                  \* the last call made on a Url, and where it stands

vars == << _counter, _names, frame__, exact_domain, features_processed,
           feature_matches, all_matches, results, call, raised, returned, runs,
           trial, proxies_file, url >>

\* No normalizer is called on its own.
NoTrial == [ fn |-> "none", vals |-> << >> ]

\* Matcher.__init__
Matcher__init__ ==
    /\ _counter = 1
    /\ _names = << >>
    /\ frame__ = << >>
    /\ exact_domain = FALSE
    /\ features_processed = << >>
    /\ feature_matches = [ f \in {} |-> Unset ]
    /\ all_matches = Unset
    /\ results = Unset
    /\ call = [ op |-> "__init__" ]
    /\ raised = "none"
    /\ returned = PyNone
    /\ runs = 0

\* No Url is in use: no proxies file, no call.
NoUrl == [ op |-> "none" ]

Init ==
    /\ Matcher__init__
    /\ trial = NoTrial
    /\ proxies_file = << >>
    /\ url = NoUrl

\* A call that raises: nothing is returned.
Raise(c, exc) ==
    /\ call' = c
    /\ raised' = exc
    /\ returned' = Unset

\* a guard that lets a third Frame in
CounterExhaustedAfterThree(counter) == counter > 3

\* line 84: self._counter > 2
CounterExhausted(counter) == counter > 2

\* a name test that lets every name in
NameNeverTaken(name, names) == FALSE

\* line 87: name in self._names
NameTaken(name, names) == \E i \in 1..Len(names) : names[i] = name

\* setattr(self, f"frame__{k}", frame)
SetFrame(frames, k, frame) ==
    [ j \in (DOMAIN frames) \cup { k } |-> IF j = k THEN frame ELSE frames[j] ]

\* What a caller passes as data: a DataFrame, or None.
DataFrame(rows) == [ type |-> "DataFrame", rows |-> rows ]
NoDataFrame == [ type |-> "NoneType", rows |-> << >> ]

\* set_df left by an exception after it has appended the name
RejectedAfterAppend(c, exc) ==
    /\ Raise(c, exc)
    /\ _names' = Append(_names, c.name)
    /\ UNCHANGED << _counter, frame__ >>

\* set_df left by an exception at line 85, 88 or 90: nothing was assigned
Rejected(c, exc) ==
    /\ Raise(c, exc)
    /\ UNCHANGED << _counter, _names, frame__ >>

\* Matcher.set_df. ValidationError is neither defined nor imported in
\* matcher.py, so line 85 raises NameError. On data that is no DataFrame
\* Frame.__init__ raises at data.copy() (line 26).
set_df(data, name, roles) ==
    LET c == [ op |-> "set_df", name |-> name, data |-> data.type,
               rows |-> data.rows, rows_after |-> data.rows ]
    IN  IF CounterExhausted(_counter)
        THEN Rejected(c, "NameError")
        ELSE IF NameTaken(name, _names)
        THEN Rejected(c, "ValueError")
        ELSE IF data.type # "DataFrame"
        THEN Rejected(c, "AttributeError")
        ELSE /\ frame__' = SetFrame(frame__, _counter, Frame(data.rows, name, roles))
             /\ _counter' = _counter + 1
             /\ _names' = Append(_names, name)
             /\ call' = [ c EXCEPT !.rows_after = DataAfterFrame(data.rows) ]
             /\ raised' = "none"
             /\ returned' = PyNone

(***************************************************************************)
(* Matcher.generic: the wrapper shared by the four feature matchers         *)
(***************************************************************************)
\* the concatenation of a sequence of sequences
RECURSIVE Concat(_)
Concat(seqs) ==
    IF seqs = << >> THEN << >> ELSE Head(seqs) \o Concat(Tail(seqs))

\* the copy without the rows that are null in any role the Frame declares
KeyedCopyOfCompleteRows(frame, col) ==
    Concat([ i \in 1..Len(frame.data) |->
               IF \A f \in { "domain", "phone", "address", "entity_name" } :
                     frame[f] = None \/ frame.data[i][frame[f]] # None
               THEN << [ pos |-> i, var |-> frame.data[i][col] ] >>
               ELSE << >> ])

\* df = frame.data.copy(); df.dropna(subset=[col]); df[var] = df[col]:
\* the rows whose col is not null, each with its position in frame.data and
\* its value of var.
KeyedCopy(frame, col) ==
    Concat([ i \in 1..Len(frame.data) |->
               IF frame.data[i][col] # None
               THEN << [ pos |-> i, var |-> frame.data[i][col] ] >>
               ELSE << >> ])

\* df[var] = df[col].apply(self.clean_field)
CleanKeys(df) ==
    [ i \in 1..Len(df) |-> [ df[i] EXCEPT !.var = clean_field_of[@] ] ]

\* df.dropna(subset=[var])
DropNaVar(df) == SelectSeq(df, LAMBDA r : r.var # None)

\* self.ignored_domains: domains_ignored.txt, the canonical domains too
\* common to identify an organisation.
ignored_domains == { << "g", "m", "a", "i", "l", ".", "c", "o", "m" >> }

\* df[~df[var].isin(self.ignored_domains)]
NotIgnored(df) == SelectSeq(df, LAMBDA r : r.var \notin ignored_domains)

\* What a feature's function leaves to the wrapper: the two frames df_1 and
\* df_2 the wrapper passed, as the function changed them in place, and the
\* function's return value r.
\* Matcher.entity_name and Matcher.address (lines 170-178)
text_function(df_1, df_2) ==
    [ df_1 |-> CleanKeys(df_1),
      df_2 |-> CleanKeys(df_2),
      r |-> "None" ]

\* df[var] of Matcher.domain (lines 182-187)
DomainKey(exact, raw) == IF exact THEN raw ELSE extract_domain_of[raw]

\* Matcher.domain (lines 180-190). Lines 189-190 bind the filtered frames to
\* the function's own names df_1 and df_2: the wrapper's frames keep every
\* row.
domain_function(df_1, df_2, exact) ==
    LET keyed_1 == [ i \in 1..Len(df_1) |->
                       [ df_1[i] EXCEPT !.var = DomainKey(exact, @) ] ]
        keyed_2 == [ i \in 1..Len(df_2) |->
                       [ df_2[i] EXCEPT !.var = DomainKey(exact, @) ] ]
        local_1 == NotIgnored(keyed_1)
        local_2 == NotIgnored(keyed_2)
    IN  [ df_1 |-> keyed_1, df_2 |-> keyed_2, r |-> "None" ]

\* df.apply(lambda x: Phone.format(x[frame.phone], x[frame.country]), axis=1)
PhoneKeys(df, frame) ==
    [ i \in 1..Len(df) |->
        [ df[i] EXCEPT !.var = Phone_format_of[<< frame.data[df[i].pos][frame.phone],
                                                 frame.data[df[i].pos][frame.country] >>] ] ]

\* line 194
CountryMissing(frame_1, frame_2) ==
    frame_1.country = None \/ frame_2.country = None

\* Matcher.phone without the return False of line 195: the raw phone values
\* are the keys when a country is missing
phone_function_without_country(df_1, df_2, frame_1, frame_2) ==
    IF CountryMissing(frame_1, frame_2)
    THEN [ df_1 |-> df_1, df_2 |-> df_2, r |-> "None" ]
    ELSE [ df_1 |-> PhoneKeys(df_1, frame_1),
           df_2 |-> PhoneKeys(df_2, frame_2),
           r |-> "None" ]

\* Matcher.phone (lines 192-198)
phone_function(df_1, df_2, frame_1, frame_2) ==
    IF CountryMissing(frame_1, frame_2)
    THEN [ df_1 |-> df_1, df_2 |-> df_2, r |-> "False" ]
    ELSE [ df_1 |-> PhoneKeys(df_1, frame_1),
           df_2 |-> PhoneKeys(df_2, frame_2),
           r |-> "None" ]

\* function(self, df_1, df_2, var) for the decorated function called name
FeatureFunction(name, df_1, df_2, frame_1, frame_2, exact) ==
    CASE name = "domain" -> domain_function(df_1, df_2, exact)
      [] name = "phone" -> phone_function(df_1, df_2, frame_1, frame_2)
      [] name = "address" -> text_function(df_1, df_2)
      [] name = "entity_name" -> text_function(df_1, df_2)

\* lines 133-136: all([getattr(self.frame__1, name), getattr(self.frame__2, name)])
BothDeclared(frame_1, frame_2, name) ==
    frame_1[name] # None /\ frame_2[name] # None

\* the wrapper working on frame.data itself: dropna(inplace=True) drops the
\* rows that are null in the role column from it
DataAfterWrapperInPlace(frame, name) ==
    SelectSeq(frame.data, LAMBDA row : row[frame[name]] # None)

\* frame.data once the wrapper of a feature both Frames declare has
\* returned: df_1 and df_2 are copies (lines 138-139), so the rows dropped
\* (lines 141-142, 154-155) and the column var (lines 144-150) are theirs
\* alone.
DataAfterWrapper(frame, name) == frame.data

\* The Frames once run has called the four wrappers (lines 202-206); the
\* merges of lines 221-222 return new DataFrames.
FramesAfterRun(frames) ==
    LET After(frame, name) ==
            IF BothDeclared(frames[1], frames[2], name)
            THEN [ frame EXCEPT !.data = DataAfterWrapper(frame, name) ]
            ELSE frame
    IN  [ k \in DOMAIN frames |->
            After(After(After(After(frames[k], "domain"), "phone"),
                        "address"), "entity_name") ]

\* a merge that pairs a row of df_1 with the first row of df_2 of its key only
LeftMergeFirstHit(df_1, df_2, frame_1, frame_2) ==
    [ i \in 1..Len(df_1) |->
        LET hits == SelectSeq(df_2, LAMBDA r : r.var = df_1[i].var)
        IN  [ idx_1 |-> frame_1.data[df_1[i].pos][frame_1.index],
              idx_2 |-> IF hits = << >> THEN None
                        ELSE frame_2.data[hits[1].pos][frame_2.index],
              var |-> df_1[i].var ] ]

\* pd.merge(df_1, df_2, on=var, how='left'): every row of df_1 in order, once
\* for each row of df_2 with the same key, or once with nulls on the right.
LeftMerge(df_1, df_2, frame_1, frame_2) ==
    Concat([ i \in 1..Len(df_1) |->
        LET hits == SelectSeq(df_2, LAMBDA r : r.var = df_1[i].var)
            left == frame_1.data[df_1[i].pos][frame_1.index]
        IN  IF hits = << >>
            THEN << [ idx_1 |-> left, idx_2 |-> None, var |-> df_1[i].var ] >>
            ELSE [ j \in 1..Len(hits) |->
                     [ idx_1 |-> left,
                       idx_2 |-> frame_2.data[hits[j].pos][frame_2.index],
                       var |-> df_1[i].var ] ] ])

\* line 158: matches[~matches[self.frame__2.index].isnull()]
RightFound(matches) == SelectSeq(matches, LAMBDA m : m.idx_2 # None)

\* line 165: matches['match_type'] = function.__name__
MatchType(name, merged) ==
    [ i \in 1..Len(merged) |->
        [ idx_1 |-> merged[i].idx_1, idx_2 |-> merged[i].idx_2,
          var |-> merged[i].var, match_type |-> name ] ]

\* lines 152-167 of the wrapper, f being what the feature's function left:
\* the function's return value and the matches (idx_1, idx_2, var,
\* match_type).
Merged(name, f, frame_1, frame_2) ==
    [ r |-> f.r,
      matches |-> MatchType(name,
                      RightFound(LeftMerge(DropNaVar(f.df_1), DropNaVar(f.df_2),
                                           frame_1, frame_2))) ]

\* lines 138-167 of the wrapper, for a feature both frames declare
Wrapped(name, frame_1, frame_2, exact) ==
    Merged(name,
           FeatureFunction(name,
                           KeyedCopy(frame_1, frame_1[name]),
                           KeyedCopy(frame_2, frame_2[name]),
                           frame_1, frame_2, exact),
           frame_1, frame_2)

\* lines 150 and 167: the wrapper returns None where the function returned
\* False (features_processed left alone), the matches otherwise
WrapperReturn(name, frame_1, frame_2, w) ==
    IF w.r = "False"
    THEN [ processed |-> FALSE, value |-> PyNone ]
    ELSE [ processed |-> TRUE,
           value |-> Table(<< frame_1.index, frame_2.index,
                              << name, "fmt" >>, << "match_type" >> >>,
                           w.matches) ]

\* A call of the wrapper (lines 127-168): whether it appended name to
\* features_processed, and the value it returned (the matches, or None).
WrapperCall(name, frame_1, frame_2, exact) ==
    IF BothDeclared(frame_1, frame_2, name)
    THEN WrapperReturn(name, frame_1, frame_2,
                       Wrapped(name, frame_1, frame_2, exact))
    ELSE [ processed |-> FALSE, value |-> PyNone ]

\* self.features_candidates
features_candidates == << "domain", "phone", "address", "entity_name" >>
Features == { features_candidates[k] : k \in 1..Len(features_candidates) }

(***************************************************************************)
(* Matcher.run                                                              *)
(***************************************************************************)
\* The feature names as Python strings.
FeatureStr ==
    [ domain |-> << "d", "o", "m", "a", "i", "n" >>,
      phone |-> << "p", "h", "o", "n", "e" >>,
      address |-> << "a", "d", "d", "r", "e", "s", "s" >>,
      entity_name |-> << "e", "n", "t", "i", "t", "y", "_", "n", "a", "m", "e" >> ]

\* json.dumps(x) for a list of feature names: '["domain", "phone"]'
RECURSIVE JsonItems(_)
JsonItems(list) ==
    IF list = << >> THEN << >>
    ELSE << "\"" >> \o FeatureStr[Head(list)] \o << "\"" >>
         \o (IF Tail(list) = << >> THEN << >> ELSE << ",", " " >>)
         \o JsonItems(Tail(list))

JsonDumps(list) == << "[" >> \o JsonItems(list) \o << "]" >>

\* lines 202-206: the features the wrappers append to features_processed, in
\* the order of features_candidates
NewlyProcessed(calls) ==
    SelectSeq(features_candidates, LAMBDA f : calls[f].processed)

\* lines 208-210: pd.concat([getattr(self, f"{i}_matches") for i in processed])
ConcatMatches(processed, fm) ==
    Concat([ k \in 1..Len(processed) |-> fm[processed[k]].rows ])

\* the order of the group keys (idx_1, idx_2)
PairLess(a, b) ==
    StrLess(a[1], b[1]) \/ (a[1] = b[1] /\ StrLess(a[2], b[2]))

\* the keys of a set in ascending order
RECURSIVE SortedKeys(_)
SortedKeys(keys) ==
    IF keys = {} THEN << >>
    ELSE LET least == CHOOSE k \in keys : \A m \in keys \ { k } : PairLess(k, m)
         IN  << least >> \o SortedKeys(keys \ { least })

\* lines 214-217: groupby([idx_1, idx_2]).agg({'match_type': ['count', list]})
\* with the list serialized: one row per key, keys ascending, null keys dropped
GroupBy(rows) ==
    LET keys == SortedKeys({ << rows[i].idx_1, rows[i].idx_2 >> :
                   i \in { j \in 1..Len(rows) :
                             rows[j].idx_1 # None /\ rows[j].idx_2 # None } })
    IN  [ k \in 1..Len(keys) |->
            LET members == SelectSeq(rows,
                    LAMBDA r : r.idx_1 = keys[k][1] /\ r.idx_2 = keys[k][2])
            IN  [ idx_1 |-> keys[k][1],
                  idx_2 |-> keys[k][2],
                  match_count |-> Len(members),
                  match_type |-> JsonDumps([ i \in 1..Len(members) |->
                                               members[i].match_type ]) ] ]

\* a sorts before b under sort_values(['match_count'], ascending=False)
SortsBeforeByCount(a, b) == a.match_count > b.match_count

\* a sorts before b under sort_values(['match_count', 'match_type'], ascending=False)
SortsBefore(a, b) ==
    \/ a.match_count > b.match_count
    \/ a.match_count = b.match_count /\ StrLess(b.match_type, a.match_type)

RECURSIVE InsertDesc(_, _)
InsertDesc(x, list) ==
    IF list = << >> THEN << x >>
    ELSE IF SortsBefore(x, Head(list)) THEN << x >> \o list
    ELSE << Head(list) >> \o InsertDesc(x, Tail(list))

\* sort_values(['match_count', 'match_type'], ascending=False): rows of equal
\* keys keep their order
RECURSIVE SortValues(_)
SortValues(rows) ==
    IF rows = << >> THEN << >>
    ELSE InsertDesc(rows[Len(rows)], SortValues(Take(rows, Len(rows) - 1)))

\* line 222: pd.merge(self.frame__1.data, self.all_matches, on=idx_1)
MergeLeftData(frame_1, summaries) ==
    Concat([ i \in 1..Len(frame_1.data) |->
        LET hits == SelectSeq(summaries,
                LAMBDA m : m.idx_1 = frame_1.data[i][frame_1.index])
        IN  [ j \in 1..Len(hits) |->
                [ idx_1 |-> hits[j].idx_1, idx_2 |-> hits[j].idx_2,
                  match_count |-> hits[j].match_count,
                  match_type |-> hits[j].match_type,
                  row_1 |-> i ] ] ])

\* line 223: pd.merge(results, self.frame__2.data, on=idx_2)
MergeRightData(rows, frame_2) ==
    Concat([ i \in 1..Len(rows) |->
        LET hits == { j \in 1..Len(frame_2.data) :
                        frame_2.data[j][frame_2.index] = rows[i].idx_2 }
        IN  Concat([ j \in 1..Len(frame_2.data) |->
                IF j \in hits
                THEN << [ idx_1 |-> rows[i].idx_1, idx_2 |-> rows[i].idx_2,
                          match_count |-> rows[i].match_count,
                          match_type |-> rows[i].match_type,
                          row_1 |-> rows[i].row_1, row_2 |-> j ] >>
                ELSE << >> ]) ])

\* The columns of the callers' DataFrames, in order.
DataColumns ==
    << Col("id"), Col("website"), Col("phone"), Col("country"), Col("street"),
       Col("name") >>

\* frame.data.columns
FrameColumns(frame) ==
    [ i \in 1..Len(DataColumns) |-> Suffixed(DataColumns[i], frame.name) ]

\* lines 215, 234
SummaryColumns == << << "match_count" >>, << "match_type" >> >>

\* lines 227-234: column_order_list
ColumnOrderList(processed, frame_1, frame_2) ==
    Concat([ k \in 1..Len(processed) |->
               << frame_1[processed[k]], frame_2[processed[k]] >> ])
    \o SummaryColumns

\* f_col = results.pop(col); results.insert(0, col, f_col)
MoveToFront(cols, col) == << col >> \o SelectSeq(cols, LAMBDA c : c # col)

\* lines 236-238
RECURSIVE Reorder(_, _)
Reorder(cols, order) ==
    IF order = << >> THEN cols
    ELSE Reorder(MoveToFront(cols, Head(order)), Tail(order))

\* the columns of results after the two merges of lines 222-223
MergedColumns(frame_1, frame_2) ==
    FrameColumns(frame_1) \o << frame_2.index >> \o SummaryColumns
    \o SelectSeq(FrameColumns(frame_2), LAMBDA c : c # frame_2.index)

\* line 242
match_count_minimum == 2

\* line 243
match_type_kept == JsonDumps(<< "domain" >>)

\* lines 241-245: the rows run keeps
Kept(row) ==
    row.match_count >= match_count_minimum \/ row.match_type = match_type_kept

\* The keyword arguments of a call of run: the names given, and the value
\* of each (an empty list or 0 for one not given).
Kwargs(given, included, excluded, threshold) ==
    [ given |-> given,
      match_type_included |-> included,
      match_type_excluded |-> excluded,
      match_count_threshold |-> threshold ]

\* run()
PlainCall == Kwargs({}, {}, {}, 0)

\* DataLoader.main's call (salesforce/data_ingestion.py, lines 232-243)
DataLoaderCall ==
    Kwargs({ "match_type_included" },
           { << "domain" >>, << "domain", "entity_name" >>,
             << "domain", "address" >>, << "domain", "phone" >>,
             << "entity_name", "address" >>, << "entity_name", "phone" >>,
             << "entity_name" >> },
           {}, 0)

\* a call that gives the three parameters of the filter policy
PolicyCall ==
    Kwargs({ "match_type_included", "match_type_excluded", "match_count_threshold" },
           { << "entity_name" >> }, { << "domain" >> }, 3)

\* the same call with a lower threshold
LowerPolicyCall ==
    Kwargs({ "match_type_included", "match_type_excluded", "match_count_threshold" },
           { << "entity_name" >> }, { << "domain" >> }, 2)

RunCalls == { PlainCall, DataLoaderCall, PolicyCall, LowerPolicyCall }

\* line 200: def run(self, save=False, verbose=True) takes no other keyword
RunAccepts(kwargs) == kwargs.given = {}

\* lines 248-250: run ends without a return statement
RunReturns(table) == PyNone

\* lines 208-219: self.all_matches
AllMatches(processed, fm, frame_1, frame_2) ==
    Table(<< frame_1.index, frame_2.index >> \o SummaryColumns,
          SortValues(GroupBy(ConcatMatches(processed, fm))))

\* lines 221-245: results
Results(processed, summaries, frame_1, frame_2) ==
    Table(Reorder(MergedColumns(frame_1, frame_2),
                  ColumnOrderList(processed, frame_1, frame_2)),
          SelectSeq(SortValues(MergeRightData(MergeLeftData(frame_1, summaries),
                                              frame_2)),
                    Kept))

\* lines 248-250: self.results = results, and the end of the body
RunEnd(c, res) ==
    /\ results' = res
    /\ call' = c
    /\ raised' = "none"
    /\ returned' = RunReturns(res)

\* lines 208-250; pd.concat of an empty list raises ValueError
RunMerge(c, processed, fm) ==
    IF processed = << >>
    THEN /\ Raise(c, "ValueError")
         /\ UNCHANGED << all_matches, results >>
    ELSE /\ all_matches' = AllMatches(processed, fm, frame__[1], frame__[2])
         /\ RunEnd(c, Results(processed, all_matches'.rows, frame__[1], frame__[2]))

\* lines 202-250, calls being what the four wrappers did and returned: the
\* wrappers appended to self.features_processed and run set <feature>_matches
RunFeatures(c, calls) ==
    /\ runs' = runs + 1
    /\ features_processed' = features_processed \o NewlyProcessed(calls)
    /\ feature_matches' = [ f \in Features |-> calls[f].value ]
    /\ RunMerge(c, features_processed', feature_matches')

\* Matcher.run(**kwargs), with save=False
run(kwargs) ==
    IF ~RunAccepts(kwargs)
    THEN /\ Raise([ op |-> "run", kwargs |-> kwargs ], "TypeError")
         /\ UNCHANGED << features_processed, feature_matches, all_matches,
                         results, runs, frame__ >>
    ELSE IF 1 \notin DOMAIN frame__ \/ 2 \notin DOMAIN frame__
    THEN /\ Raise([ op |-> "run", kwargs |-> kwargs ], "AttributeError")
         /\ UNCHANGED << features_processed, feature_matches, all_matches,
                         results, runs, frame__ >>
    ELSE /\ RunFeatures([ op |-> "run", kwargs |-> kwargs ],
                        [ f \in Features |->
                            WrapperCall(f, frame__[1], frame__[2], exact_domain) ])
         /\ frame__' = FramesAfterRun(frame__)

\* The number of calls of run a session of the model makes.
MaxRuns == 2

Run ==
    /\ runs < MaxRuns
    /\ \E kwargs \in RunCalls : run(kwargs)
    /\ UNCHANGED << _counter, _names, exact_domain, trial, proxies_file, url >>

\* A call of set_df. A call that raises does so whatever its data and roles.
SetDf ==
    /\ \E name \in Names :
         IF CounterExhausted(_counter) \/ NameTaken(name, _names)
         THEN set_df(DataFrame(TableX), name, CHOOSE r \in RoleArgs : TRUE)
         ELSE \/ \E data \in Tables : \E roles \in RoleArgs :
                    set_df(DataFrame(data), name, roles)
              \/ set_df(NoDataFrame, name, CHOOSE r \in RoleArgs : TRUE)
    /\ UNCHANGED << exact_domain, features_processed, feature_matches,
                    all_matches, results, runs, trial, proxies_file, url >>

(***************************************************************************)
(* Specification                                                            *)
(***************************************************************************)
Next == SetDf \/ Run

\* A session of one Matcher: calls of set_df and run in any order.
Spec == Init /\ [][Next]_vars

(***************************************************************************)
(* The normalizers called on their own                                      *)
(***************************************************************************)
\* Raw names and addresses: "Acme Corp LLC", "LLC, Acme Corp.", "Acme Corp",
\* "corp acme", "Bob's Pub", "Pub Bob's Pub", "Acme Inc", "Acme", " . " and
\* the empty string.
RawTexts ==
    { << "A", "c", "m", "e", " ", "C", "o", "r", "p", " ", "L", "L", "C" >>,
      << "L", "L", "C", ",", " ", "A", "c", "m", "e", " ", "C", "o", "r", "p", "." >>,
      << "A", "c", "m", "e", " ", "C", "o", "r", "p" >>,
      << "c", "o", "r", "p", " ", "a", "c", "m", "e" >>,
      << "B", "o", "b", "'", "s", " ", "P", "u", "b" >>,
      << "P", "u", "b", " ", "B", "o", "b", "'", "s", " ", "P", "u", "b" >>,
      << "A", "c", "m", "e", " ", "I", "n", "c" >>,
      << "A", "c", "m", "e" >>,
      << " ", ".", " " >>,
      << >> }

\* Raw websites and emails: "http://www.acme.com", "acme.com/about",
\* "www.acme.com", "bob@gmail.com", "http://httpbin.org", "dev.www.acme.com",
\* "acme.com/@team", "localhost".
RawUrls ==
    { << "h", "t", "t", "p", ":", "/", "/", "w", "w", "w", ".", "a", "c", "m", "e", ".", "c", "o", "m" >>,
      << "a", "c", "m", "e", ".", "c", "o", "m", "/", "a", "b", "o", "u", "t" >>,
      << "w", "w", "w", ".", "a", "c", "m", "e", ".", "c", "o", "m" >>,
      << "b", "o", "b", "@", "g", "m", "a", "i", "l", ".", "c", "o", "m" >>,
      << "h", "t", "t", "p", ":", "/", "/", "h", "t", "t", "p", "b", "i", "n", ".", "o", "r", "g" >>,
      << "d", "e", "v", ".", "w", "w", "w", ".", "a", "c", "m", "e", ".", "c", "o", "m" >>,
      << "a", "c", "m", "e", ".", "c", "o", "m", "/", "@", "t", "e", "a", "m" >>,
      << "l", "o", "c", "a", "l", "h", "o", "s", "t" >> }

\* Raw phone numbers: "555-1234", "+1 555 1234", "020 7946 0018", "n/a".
RawPhones ==
    { << "5", "5", "5", "-", "1", "2", "3", "4" >>,
      << "+", "1", " ", "5", "5", "5", " ", "1", "2", "3", "4" >>,
      << "0", "2", "0", " ", "7", "9", "4", "6", " ", "0", "0", "1", "8" >>,
      << "n", "/", "a" >> }

\* Raw countries: "US", "gbr", "United Kingdom", "Zyzzania", and a null.
RawCountries ==
    { << "U", "S" >>,
      << "g", "b", "r" >>,
      << "U", "n", "i", "t", "e", "d", " ", "K", "i", "n", "g", "d", "o", "m" >>,
      << "Z", "y", "z", "z", "a", "n", "i", "a" >>,
      None }

\* How many times in a row a normalizer is applied to a value.
MaxApply == 2

\* The calls of a normalizer on raw values: clean_field on two values side
\* by side, extract_domain on one, Phone.format on a phone and a country.
Trials ==
    { [ fn |-> "clean_field", vals |-> << << a, b >> >> ] :
        a \in RawTexts, b \in RawTexts }
    \cup { [ fn |-> "extract_domain", vals |-> << << u >> >> ] : u \in RawUrls }
    \cup { [ fn |-> "Phone.format", vals |-> << << p, c >> >> ] :
             p \in RawPhones, c \in RawCountries }

InitTrial ==
    /\ Matcher__init__
    /\ trial \in Trials
    /\ proxies_file = << >>
    /\ url = NoUrl

\* the values of the last call, or the raw values
Last(t) == t.vals[Len(t.vals)]

\* The call appended what it returned.
Returns(outs) ==
    /\ trial' = [ trial EXCEPT !.vals = Append(@, outs) ]
    /\ UNCHANGED << _counter, _names, frame__, exact_domain, features_processed,
                    feature_matches, all_matches, results, call, raised,
                    returned, runs, proxies_file, url >>

\* Matcher.clean_field(x) on each of the two values, then on what it returned
CleanField ==
    /\ trial.fn = "clean_field"
    /\ Len(trial.vals) <= MaxApply
    /\ Returns(<< clean_field(Last(trial)[1]), clean_field(Last(trial)[2]) >>)

\* extract_domain(url_or_email), then on what it returned
ExtractDomain ==
    /\ trial.fn = "extract_domain"
    /\ Len(trial.vals) <= MaxApply
    /\ Returns(<< extract_domain(Last(trial)[1]) >>)

\* Phone.format(phone, country)
PhoneFormatCall ==
    /\ trial.fn = "Phone.format"
    /\ Len(trial.vals) = 1
    /\ Returns(<< PhoneFormat(Last(trial)[1], Last(trial)[2]) >>)

NextTrial == CleanField \/ ExtractDomain \/ PhoneFormatCall

\* A normalizer applied to raw values.
SpecTrial == InitTrial /\ [][NextTrial]_vars

(***************************************************************************)
(* url/url.py: Url                                                          *)
(***************************************************************************)
\* line 30
MAX_RETRIES == 50

\* The longest queue a call of request is given.
MaxQueue == 2

\* What the proxies file holds is the chunks written since it was last
\* opened for writing: json.dumps(list) whole, or a part of it (what a write
\* that failed left behind).
Whole(list) == [ text |-> "whole", list |-> list ]
Part(list) == [ text |-> "part", list |-> list ]

\* json.loads(f.read()) succeeds (line 93): the file holds one whole list
Readable(file) == Len(file) = 1 /\ file[1].text = "whole"

\* the orders random.shuffle may leave a list in (line 94)
Shuffles(list) ==
    { s \in [ 1..Len(list) -> { list[i] : i \in 1..Len(list) } ] :
        \A x \in { list[i] : i \in 1..Len(list) } :
            Cardinality({ i \in 1..Len(list) : s[i] = x })
                = Cardinality({ i \in 1..Len(list) : list[i] = x }) }

\* lines 107-108: list(set(proxies)) and random.shuffle
Deduplicated(list) ==
    LET items == { list[i] : i \in 1..Len(list) }
    IN  { s \in [ 1..Cardinality(items) -> items ] :
            \A i \in 1..Cardinality(items) : \A j \in 1..Cardinality(items) :
                s[i] = s[j] => i = j }

\* The values assigned to proxies: lists of proxies, with and without
\* repeats, and a value that is not iterable (None).
ProxyValues ==
    { [ iterable |-> TRUE, list |-> l ] :
        l \in { << >>, << "p1" >>, << "p2", "p2" >>, << "p1", "p2", "p1" >> } }
    \cup { [ iterable |-> FALSE, list |-> << >> ] }

\* lines 112-114, the except branch: f.write(json.dumps(proxies_)) after what
\* the file already holds. The write succeeds, or fails having written
\* nothing or a part, and its exception leaves the setter.
KeepOldValues(before, old) ==
    { [ file |-> before \o << Whole(old) >>, raised |-> "none", set |-> FALSE ],
      [ file |-> before, raised |-> "OSError", set |-> FALSE ],
      [ file |-> before \o << Part(old) >>, raised |-> "OSError", set |-> FALSE ] }

\* lines 105-114, the file being open for writing and empty, old being what
\* the getter returned: what the file holds afterwards, the exception that
\* leaves the setter and whether the new values were set. set() raises on a
\* value that is not iterable; f.write succeeds, or fails having written
\* nothing or a part.
SetterOutcomes(value, old) ==
    IF ~value.iterable THEN KeepOldValues(<< >>, old)
    ELSE UNION { { [ file |-> << Whole(new) >>, raised |-> "none", set |-> TRUE ] }
                 \cup KeepOldValues(<< >>, old)
                 \cup KeepOldValues(<< Part(new) >>, old) :
                 new \in Deduplicated(value.list) }

\* No Matcher and no normalizer takes part in a call on a Url.
UrlOnly ==
    UNCHANGED << _counter, _names, frame__, exact_domain, features_processed,
                 feature_matches, all_matches, results, call, raised, returned,
                 runs, trial >>

\* No call of request is under way.
UrlIdle == IF url.op = "request" THEN url.pc = "done" ELSE TRUE

\* self.proxies = value (lines 98-114). Line 104 reads the file through the
\* getter and line 105 opens it for writing, which empties it.
proxies_setter(op, value) ==
    IF ~Readable(proxies_file)
    THEN /\ url' = [ op |-> op, value |-> value, raised |-> "JSONDecodeError",
                     set |-> FALSE ]
         /\ UNCHANGED proxies_file
    ELSE \E old \in Shuffles(proxies_file[1].list) :
         \E o \in SetterOutcomes(value, old) :
            /\ proxies_file' = o.file
            /\ url' = [ op |-> op, value |-> value, raised |-> o.raised,
                        set |-> o.set ]

SetProxies ==
    /\ UrlIdle
    /\ \E value \in ProxyValues : proxies_setter("proxies", value)
    /\ UrlOnly

\* append_proxies(proxies) (lines 116-124), for the list ["p1", "p2"] and
\* for the one proxy "p2", which line 120 wraps in a list
AppendProxies ==
    /\ UrlIdle
    /\ \E is_list \in BOOLEAN :
       \E _proxies \in IF Readable(proxies_file)
                       THEN Shuffles(proxies_file[1].list) ELSE { << >> } :
          proxies_setter("append_proxies",
                         [ iterable |-> TRUE,
                           list |-> _proxies \o (IF is_list
                                                 THEN << "p1", "p2" >>
                                                 ELSE << "p2" >>) ])
    /\ UrlOnly

\* line 259, max_retries = 0 standing for None
MaxRetries(max_retries, use_proxy, proxies) ==
    IF use_proxy
    THEN LET wanted == IF max_retries # 0 THEN max_retries ELSE Len(proxies)
         IN  IF wanted <= MAX_RETRIES THEN wanted ELSE MAX_RETRIES
    ELSE 1

\* A call of request that ended: the exception it raised or the value it
\* returned.
Ended(r, raised_, returned_) ==
    [ r EXCEPT !.pc = "done", !.raised = raised_, !.returned = returned_ ]

\* Url.request(queue, max_retries=..., use_proxy=..., _raise=...) up to the
\* loop (lines 253-262), for a queue of n items. The responses are named
\* after the items.
Request ==
    /\ UrlIdle
    /\ \E n \in 1..MaxQueue : \E max_retries \in { 0, 1, 3 } :
       \E use_proxy \in BOOLEAN : \E _raise \in BOOLEAN :
          LET r == [ op |-> "request", pc |-> "loop", queue |-> 1..n,
                     queue_len |-> n, result_dict |-> {}, retries |-> 1,
                     max_retries |-> 1, proxy_iter |-> << >>,
                     use_proxy |-> use_proxy, _raise |-> _raise,
                     rounds |-> << >>, raised |-> "none", returned |-> Unset ]
          IN  IF ~Readable(proxies_file)
              THEN url' = Ended(r, "JSONDecodeError", Unset)
              ELSE \E proxies \in Shuffles(proxies_file[1].list) :
                     url' = [ r EXCEPT
                                !.max_retries = MaxRetries(max_retries, use_proxy, proxies),
                                !.proxy_iter = proxies ]
    /\ UNCHANGED proxies_file
    /\ UrlOnly

\* line 266: the condition of the while loop
Retrying(r) ==
    Cardinality(r.result_dict) < r.queue_len /\ r.retries <= r.max_retries

\* One round of the loop (lines 267-289): next(proxy_iter) raises
\* StopIteration on an exhausted iterator; every item left in the queue is
\* submitted and those that come back with a response leave the queue.
RequestRound ==
    /\ url.op = "request"
    /\ url.pc = "loop"
    /\ Retrying(url)
    /\ IF url.use_proxy /\ url.proxy_iter = << >>
       THEN url' = Ended(url, "StopIteration", Unset)
       ELSE \E succeeded \in SUBSET url.queue :
              url' = [ url EXCEPT
                         !.proxy_iter = IF url.use_proxy THEN Tail(@) ELSE @,
                         !.rounds = Append(@, [ proxy |-> IF url.use_proxy
                                                          THEN Head(url.proxy_iter)
                                                          ELSE "None",
                                                submitted |-> url.queue,
                                                succeeded |-> succeeded ]),
                         !.result_dict = @ \cup succeeded,
                         !.queue = @ \ succeeded,
                         !.retries = @ + 1 ]
    /\ UNCHANGED proxies_file
    /\ UrlOnly

\* line 298: the responses in the order of the items
SortedResults(result_dict) ==
    CHOOSE s \in [ 1..Cardinality(result_dict) -> result_dict ] :
        \A i \in 1..Cardinality(result_dict) : \A j \in 1..Cardinality(result_dict) :
            i < j => s[i] < s[j]

\* lines 291-303: after the loop
RequestFinish ==
    /\ url.op = "request"
    /\ url.pc = "loop"
    /\ ~Retrying(url)
    /\ url' =
         IF url._raise /\ Cardinality(url.result_dict) < url.queue_len
         THEN Ended(url, "ImportError", Unset)
         ELSE IF url.queue_len # 1
         THEN Ended(url, "none",
                    [ kind |-> "list", items |-> SortedResults(url.result_dict) ])
         ELSE IF url.result_dict = {}
         THEN Ended(url, "IndexError", Unset)
         ELSE Ended(url, "none",
                    [ kind |-> "response",
                      item |-> SortedResults(url.result_dict)[1] ])
    /\ UNCHANGED proxies_file
    /\ UrlOnly

\* A Url whose proxies file holds a list of proxies.
InitUrl ==
    /\ Matcher__init__
    /\ trial = NoTrial
    /\ proxies_file \in { << Whole(l) >> :
                            l \in { << >>, << "p1" >>, << "p1", "p2" >> } }
    /\ url = NoUrl

NextUrl == SetProxies \/ AppendProxies \/ Request \/ RequestRound \/ RequestFinish

\* Calls on one Url, one after the other.
SpecUrl == InitUrl /\ [][NextUrl]_vars

(***************************************************************************)
(* Properties                                                               *)
(***************************************************************************)
\* the elements of a sequence
Range(seq) == { seq[i] : i \in 1..Len(seq) }

\* Both Frames are registered.
BothFramesSet == { 1, 2 } \subseteq DOMAIN frame__

\* The names of the registered Frames.
RegisteredNames == { frame__[k].name : k \in DOMAIN frame__ }

\* C1: set_df raises and registers no Frame when two Frames are already
\* registered (a third call) or when its side name was already used; any
\* other call on a DataFrame succeeds and registers its Frame as the next
\* frame__k, leaving the earlier Frames as they are.
C1_SetDfRejectsThirdAndDuplicate ==
    [][ (call'.op = "set_df" /\ call'.data = "DataFrame") =>
          IF Cardinality(DOMAIN frame__) >= 2 \/ call'.name \in RegisteredNames
          THEN /\ raised' # "none"
               /\ frame__' = frame__
          ELSE /\ raised' = "none"
               /\ DOMAIN frame__' = 1..(Cardinality(DOMAIN frame__) + 1)
               /\ frame__'[Cardinality(DOMAIN frame__) + 1].name = call'.name
               /\ \A k \in DOMAIN frame__ : frame__'[k] = frame__[k] ]_vars

\* A third call of set_df, with a name not used before, has raised.
C1_Witness ==
    /\ call.op = "set_df"
    /\ raised # "none"
    /\ DOMAIN frame__ = { 1, 2 }
    /\ call.name \notin RegisteredNames

\* C2: once run has produced a result, every further call of run() on the
\* same Frames completes without error and leaves the same result (same rows
\* with the same match_count and match_type, in the same order).
C2_RerunIdempotent ==
    [][ (call'.op = "run" /\ RunAccepts(call'.kwargs) /\ results.kind = "table")
          => (raised' = "none" /\ results' = results) ]_vars

\* C5: a call of run that completes has stored the result table in
\* self.results and has returned that same table.
C5_RunReturnsResults ==
    (call.op = "run" /\ raised = "none")
        => (results.kind = "table" /\ returned = results)

\* A feature both Frames can be matched on: both declare its role, and for
\* phone both declare a country too.
JointlyAvailable(f) ==
    /\ frame__[1][f] # None
    /\ frame__[2][f] # None
    /\ f = "phone" => (frame__[1].country # None /\ frame__[2].country # None)

\* C7: whatever roles the two Frames declare, run() completes without
\* raising, having matched on exactly the features available on both sides.
C7_RunNeverRaisesOnMissingRoles ==
    (call.op = "run" /\ RunAccepts(call.kwargs) /\ BothFramesSet)
        => /\ raised = "none"
           /\ Range(features_processed) = { f \in Features : JointlyAvailable(f) }

\* C8: no candidate pair of the domain feature has a canonical domain key
\* that is in the ignored-domains denylist.
C8_NoDenylistedDomainCandidate ==
    (DOMAIN feature_matches = Features /\ feature_matches["domain"].kind = "table")
        => \A m \in Range(feature_matches["domain"].rows) :
              m.var \notin ignored_domains

\* C9: the rows of the result of run are in descending order of
\* (match_count, match_type), match_type compared as the serialized label.
C9_ResultsSortedDescending ==
    results.kind = "table" =>
        \A i \in 1..(Len(results.rows) - 1) :
            LET r1 == results.rows[i]
                r2 == results.rows[i + 1]
            IN  \/ r1.match_count > r2.match_count
                \/ /\ r1.match_count = r2.match_count
                   /\ ~StrLess(r1.match_type, r2.match_type)

\* A result with two rows of equal match_count and different match_type.
C9_Witness ==
    /\ results.kind = "table"
    /\ \E i \in 1..(Len(results.rows) - 1) :
          /\ results.rows[i].match_count = results.rows[i + 1].match_count
          /\ results.rows[i].match_type # results.rows[i + 1].match_type

\* Dedup mode: one dataset registered as both Frames.
DedupMode ==
    /\ BothFramesSet
    /\ \E data \in Tables :
          frame__[1].data = AddSuffix(data, frame__[1].name)
          /\ frame__[2].data = AddSuffix(data, frame__[2].name)

\* C3: in dedup mode the result of a run gives every record of a retained
\* pair a match_group, and match_group membership is the transitive closure
\* of the retained pairs: two retained pairs that share a record have all
\* their records in one match_group.
C3_DedupGroupsAreTransitive ==
    (call.op = "run" /\ raised = "none" /\ DedupMode /\ Len(results.rows) > 0)
        => /\ << "match_group" >> \in Range(results.cols)
           /\ \A r \in Range(results.rows) : \A q \in Range(results.rows) :
                 ({ r.idx_1, r.idx_2 } \cap { q.idx_1, q.idx_2 } # {})
                    => r.match_group = q.match_group

\* The filter policy a call of run asks for: what it gives, and for what it
\* does not give the default (a match_count of 2, or a match on domain alone).
PolicyThreshold(kwargs) ==
    IF "match_count_threshold" \in kwargs.given
    THEN kwargs.match_count_threshold ELSE 2

PolicyIncluded(kwargs) ==
    IF "match_type_included" \in kwargs.given
    THEN { Range(l) : l \in kwargs.match_type_included } ELSE { { "domain" } }

PolicyExcluded(kwargs) ==
    IF "match_type_excluded" \in kwargs.given
    THEN { Range(l) : l \in kwargs.match_type_excluded } ELSE {}

\* The features on which the pair (idx_1, idx_2) is a candidate.
FeaturesMatched(idx_1, idx_2) ==
    { f \in Features :
        /\ feature_matches[f].kind = "table"
        /\ \E m \in Range(feature_matches[f].rows) :
              m.idx_1 = idx_1 /\ m.idx_2 = idx_2 }

\* C4: the filter policy is the one the call of run gives: after a call of
\* run on two Frames that share a feature, a match summary is in the result
\* if and only if (match_count >= threshold or its match_type set is in the
\* allow-list) and its match_type set is not in the deny-list.
C4_FilterPolicyPerCall ==
    (call.op = "run" /\ BothFramesSet /\ \E f \in Features : JointlyAvailable(f))
        => /\ raised = "none"
           /\ all_matches.kind = "table"
           /\ results.kind = "table"
           /\ \A m \in Range(all_matches.rows) :
                (\E r \in Range(results.rows) :
                    r.idx_1 = m.idx_1 /\ r.idx_2 = m.idx_2)
                <=> /\ \/ m.match_count >= PolicyThreshold(call.kwargs)
                       \/ FeaturesMatched(m.idx_1, m.idx_2)
                              \in PolicyIncluded(call.kwargs)
                    /\ FeaturesMatched(m.idx_1, m.idx_2)
                           \notin PolicyExcluded(call.kwargs)

\* The serialized label names feature f.
LabelNames(label, f) ==
    Contains(label, << "\"" >> \o FeatureStr[f] \o << "\"" >>)

\* Feature f took part in the last run: it is in features_processed, its
\* matcher returned candidates, or a match_type names it.
TookPart(f) ==
    \/ f \in Range(features_processed)
    \/ feature_matches[f].kind = "table"
    \/ /\ all_matches.kind = "table"
       /\ \E m \in Range(all_matches.rows) : LabelNames(m.match_type, f)
    \/ /\ results.kind = "table"
       /\ \E r \in Range(results.rows) : LabelNames(r.match_type, f)

\* C6: a feature takes part in a run only if both Frames declare its role,
\* and phone only if both Frames declare a country as well.
C6_FeatureNeedsRoleOnBothSides ==
    (DOMAIN feature_matches = Features) =>
        \A f \in Features : TookPart(f) => JointlyAvailable(f)

\* A run in which phone was left out for want of a country on one side, while
\* both Frames declare phone, and another feature was matched.
C6_Witness ==
    /\ call.op = "run"
    /\ raised = "none"
    /\ frame__[1].phone # None
    /\ frame__[2].phone # None
    /\ frame__[1].country # None
    /\ frame__[2].country = None
    /\ "phone" \notin Range(features_processed)
    /\ Len(results.rows) > 0

\* features_processed of a Matcher that has made n runs on (frame_1, frame_2)
RECURSIVE ProcessedAfter(_, _)
ProcessedAfter(n, newly) ==
    IF n = 0 THEN << >> ELSE ProcessedAfter(n - 1, newly) \o newly

\* The match summaries and the result of a Matcher on which the two Frames
\* were registered in the opposite order, after as many runs.
SwappedRun ==
    LET frame_1 == frame__[2]
        frame_2 == frame__[1]
        calls == [ f \in Features |-> WrapperCall(f, frame_1, frame_2, exact_domain) ]
        processed == ProcessedAfter(runs, NewlyProcessed(calls))
        am == AllMatches(processed, [ f \in Features |-> calls[f].value ],
                         frame_1, frame_2)
    IN  [ all_matches |-> am,
          results |-> Results(processed, am.rows, frame_1, frame_2) ]

\* the rows of a table as (id, id, match_count, match_type)
Pairs(table) ==
    { << r.idx_1, r.idx_2, r.match_count, r.match_type >> : r \in Range(table.rows) }

\* the same with the two ids exchanged
Mirrored(table) ==
    { << r.idx_2, r.idx_1, r.match_count, r.match_type >> : r \in Range(table.rows) }

\* C10: matching the same two record sets registered in the opposite order
\* gives the same matched id-pairs (ids exchanged), each with the same
\* match_count and match_type, in the summaries and in the filtered result.
C10_Symmetry ==
    (call.op = "run" /\ raised = "none") =>
        /\ Pairs(results) = Mirrored(SwappedRun.results)
        /\ Pairs(all_matches) = Mirrored(SwappedRun.all_matches)

\* A run of two different record sets with a pair matched on several
\* features and a pair dropped by the filter.
C10_Witness ==
    /\ call.op = "run"
    /\ raised = "none"
    /\ frame__[1].data[1] # frame__[2].data[1]
    /\ frame__[1].index[1] = "id"
    /\ \E r \in Range(results.rows) : r.match_count >= 3 /\ r.idx_1 # r.idx_2
    /\ Len(results.rows) < Len(all_matches.rows)

\* The columns of the feature roles a Frame declares.
DeclaredFeatureColumns(frame) == { frame[f] : f \in Features } \ { None }

\* Row i of the Frame's data is null in every declared feature role.
NullInEveryRole(frame, i) ==
    \A c \in DeclaredFeatureColumns(frame) : frame.data[i][c] = None

\* C11: a row whose value is null in every feature role its Frame declares
\* is in no result row of a run (no row of results carries the data of such
\* a row, on either side).
C11_NullRowsNeverAppear ==
    (call.op = "run" /\ raised = "none") =>
        \A r \in Range(results.rows) :
            /\ ~NullInEveryRole(frame__[1], r.row_1)
            /\ ~NullInEveryRole(frame__[2], r.row_2)

\* C12: after a run, all_matches holds one summary for each matched pair
\* (idx_1, idx_2), and the summary's match_count is the number of distinct
\* features on which the pair is a candidate, hence between 1 and 4.
C12_OneSummaryPerPairCountingFeatures ==
    (call.op = "run" /\ raised = "none") =>
        /\ \A i \in 1..Len(all_matches.rows) : \A j \in 1..Len(all_matches.rows) :
              (all_matches.rows[i].idx_1 = all_matches.rows[j].idx_1
               /\ all_matches.rows[i].idx_2 = all_matches.rows[j].idx_2) => i = j
        /\ \A s \in Range(all_matches.rows) :
              /\ s.match_count = Cardinality(FeaturesMatched(s.idx_1, s.idx_2))
              /\ s.match_count >= 1
              /\ s.match_count <= 4

\* Two calls of run give the same allow-list and deny-list.
SameLists(a, b) ==
    /\ { "match_type_included", "match_type_excluded", "match_count_threshold" }
           \subseteq (a.given \cap b.given)
    /\ a.match_type_included = b.match_type_included
    /\ a.match_type_excluded = b.match_type_excluded

\* C13: when a run with a match_count_threshold is followed, on the same
\* Frames and with the same allow-list and deny-list, by a run with a
\* threshold at least as high, both runs complete and the rows of the second
\* result are rows of the first.
C13_ThresholdMonotonicity ==
    [][ (/\ BothFramesSet
         /\ \E f \in Features : JointlyAvailable(f)
         /\ call.op = "run"
         /\ call'.op = "run"
         /\ SameLists(call.kwargs, call'.kwargs)
         /\ call.kwargs.match_count_threshold <= call'.kwargs.match_count_threshold)
        => (/\ raised = "none"
            /\ raised' = "none"
            /\ Range(results'.rows) \subseteq Range(results.rows)) ]_vars

\* The Frame holds the data with every column renamed to the column suffixed
\* with the Frame's name, and for every role the suffixed column the caller
\* supplied, or None for a role the caller did not supply.
FrameOf(frame, data, roles) ==
    /\ Len(frame.data) = Len(data)
    /\ \A i \in 1..Len(data) :
          /\ DOMAIN frame.data[i] = { c \o << frame.name >> : c \in DOMAIN data[i] }
          /\ \A c \in DOMAIN data[i] : frame.data[i][c \o << frame.name >>] = data[i][c]
    /\ \A role \in DOMAIN roles :
          frame[role] = IF roles[role] = None THEN None
                        ELSE roles[role] \o << frame.name >>

C15_ReusableAcrossCycles ==
    [][ (call.op = "run" /\ raised = "none" /\ call'.op = "set_df")
          => /\ raised' = "none"
             /\ \E k \in DOMAIN frame__' :
                   /\ frame__'[k].name = call'.name
                   /\ (k \notin DOMAIN frame__ \/ frame__'[k] # frame__[k]) ]_vars

\* C16: a normalizer applied to a non-null key it returned gives that key
\* again, for clean_field and for extract_domain.
C16_NormalizationIdempotent ==
    (trial.fn \in { "clean_field", "extract_domain" } /\ Len(trial.vals) >= 3) =>
        \A i \in DOMAIN trial.vals[2] :
            trial.vals[2][i] # None => trial.vals[3][i] = trial.vals[2][i]

\* The word tokens of a raw value after lowercasing and punctuation removal.
Tokens(x) == SplitWs(RemoveChars(Lower(x), Replacements), << >>)

\* Two raw values have the same tokens, each as many times.
SameTokens(a, b) ==
    \A t \in Range(Tokens(a)) \cup Range(Tokens(b)) :
        Cardinality({ i \in 1..Len(Tokens(a)) : Tokens(a)[i] = t })
            = Cardinality({ i \in 1..Len(Tokens(b)) : Tokens(b)[i] = t })

\* C17: two raw values with equal token multisets after lowercasing and
\* punctuation removal, whatever the order of their words, get the same
\* address/entity-name key from clean_field.
C17_OrderInvariance ==
    (trial.fn = "clean_field" /\ Len(trial.vals) >= 2
     /\ SameTokens(trial.vals[1][1], trial.vals[1][2]))
        => trial.vals[2][1] = trial.vals[2][2]

\* clean_field has given one key to two raw values that differ in the order
\* of their words, in case and in punctuation.
C17_Witness ==
    /\ trial.fn = "clean_field"
    /\ Len(trial.vals) >= 2
    /\ SameTokens(trial.vals[1][1], trial.vals[1][2])
    /\ Tokens(trial.vals[1][1]) # Tokens(trial.vals[1][2])
    /\ Lower(trial.vals[1][1]) # Lower(trial.vals[1][2])
    /\ trial.vals[2][1] = trial.vals[2][2]

\* The country names a row of Phone.CODES, by its ISO-2 code, its ISO-3 code
\* or its name.
Resolvable(country) ==
    \E row \in CODES :
        Lower(StrOf(country)) \in { row.iso, row.iso_long, row.country }

\* C18: Phone.format returns null for a country that resolves to no ISO-2
\* code, whatever the phone value.
C18_NullWhenCountryUnresolved ==
    (trial.fn = "Phone.format" /\ Len(trial.vals) >= 2
     /\ ~Resolvable(trial.vals[1][2]))
        => trial.vals[2][1] = None

\* The network location of a value read as a URL, with a leading "www."
\* stripped and nothing else.
HostWithoutLeadingWww(s) ==
    LET host == Netloc(IF StartsWith(s, HttpPrefix) THEN s ELSE HttpSlashes \o s)
    IN  IF StartsWith(host, Www) THEN Drop(host, Len(Www)) ELSE host

\* The domain key of a raw value as a total function: the part after '@' of
\* an email-shaped value; of any other value the network location without a
\* leading "www."; null when that is empty or holds no '.'.
DomainKeyOf(s) ==
    IF EmailFullMatch(s) THEN AfterFirstAt(s)
    ELSE IF HostWithoutLeadingWww(s) # << >>
            /\ Contains(HostWithoutLeadingWww(s), << "." >>)
    THEN HostWithoutLeadingWww(s)
    ELSE None

\* C19: extract_domain returns, for every raw value, the part after '@' of
\* an email-shaped value and otherwise the network location of the value
\* read as a URL with only a leading "www." stripped, or null when that is
\* empty or holds no '.'.
C19_DomainNormalizerTotal ==
    (trial.fn = "extract_domain" /\ Len(trial.vals) >= 2)
        => trial.vals[2][1] = DomainKeyOf(trial.vals[1][1])

\* C20: when one dataset is matched against itself, no row of the result of
\* a run pairs a record with itself (the same identifier on the left and on
\* the right).
C20_NoSelfPairInDedupMode ==
    (call.op = "run" /\ raised = "none" /\ DedupMode) =>
        \A r \in Range(results.rows) : r.idx_1 # r.idx_2

\* The canonical key of row i of a Frame for a feature: what the feature's
\* function puts in the key column, null for a row the wrapper dropped.
RowKey(name, frame, i) ==
    IF frame.data[i][frame[name]] = None THEN None
    ELSE CASE name = "domain" ->
                DomainKey(exact_domain, frame.data[i][frame[name]])
           [] name = "phone" ->
                Phone_format_of[<< frame.data[i][frame.phone],
                                   frame.data[i][frame.country] >>]
           [] OTHER -> clean_field_of[frame.data[i][frame[name]]]

\* Row i of the Frame has an id and a non-null key for the feature.
Keyed(name, frame, i) ==
    frame.data[i][frame.index] # None /\ RowKey(name, frame, i) # None

\* The pairs of rows, one of each Frame, that have an id and hold one
\* non-null key for the feature, as (id, id, key).
EqualKeyPairs(name) ==
    { << frame__[1].data[p[1]][frame__[1].index],
         frame__[2].data[p[2]][frame__[2].index],
         RowKey(name, frame__[1], p[1]) >> :
        p \in { q \in (1..Len(frame__[1].data)) \X (1..Len(frame__[2].data)) :
                  /\ Keyed(name, frame__[1], q[1])
                  /\ Keyed(name, frame__[2], q[2])
                  /\ RowKey(name, frame__[1], q[1]) = RowKey(name, frame__[2], q[2]) } }

\* The candidates of a feature, as (id, id, key).
Candidates(name) ==
    { << m.idx_1, m.idx_2, m.var >> : m \in Range(feature_matches[name].rows) }

\* C21: the candidates of a processed feature are exactly the pairs of rows
\* of frame__1 and frame__2 whose canonical keys for the feature are both
\* non-null and identical, and no candidate has a null id on either side.
C21_CandidatesAreEqualKeyPairs ==
    (call.op = "run" /\ raised = "none") =>
        \A f \in Range(features_processed) :
            /\ \A m \in Range(feature_matches[f].rows) :
                  m.idx_1 # None /\ m.idx_2 # None
            /\ Candidates(f) = EqualKeyPairs(f)

\* C22: clean_field returns null for a raw value that leaves no token (empty,
\* whitespace only or punctuation only), so that such a value has no key.
C22_NullKeyWhenNoToken ==
    (trial.fn = "clean_field" /\ Len(trial.vals) >= 2) =>
        \A i \in DOMAIN trial.vals[1] :
            Tokens(trial.vals[1][i]) = << >> => trial.vals[2][i] = None

\* The feature names in sorted order.
SortedFeatureNames == << "address", "domain", "entity_name", "phone" >>

\* The label of a set of features: its names in sorted order, serialized.
CanonicalLabel(features) ==
    JsonDumps(SelectSeq(SortedFeatureNames, LAMBDA f : f \in features))

\* C23: the match_type of every match summary is the canonical label of the
\* set of features the pair matched on (the names once each, in sorted
\* order), so that equal feature sets carry identical labels.
C23_CanonicalMatchType ==
    (call.op = "run" /\ raised = "none") =>
        \A s \in Range(all_matches.rows) :
            s.match_type = CanonicalLabel(FeaturesMatched(s.idx_1, s.idx_2))

\* The pairs of rows with the ids id_1 and id_2 that have one non-null key
\* for the feature.
RowPairs(name, id_1, id_2) ==
    { q \in (1..Len(frame__[1].data)) \X (1..Len(frame__[2].data)) :
        /\ frame__[1].data[q[1]][frame__[1].index] = id_1
        /\ frame__[2].data[q[2]][frame__[2].index] = id_2
        /\ Keyed(name, frame__[1], q[1])
        /\ Keyed(name, frame__[2], q[2])
        /\ RowKey(name, frame__[1], q[1]) = RowKey(name, frame__[2], q[2]) }

\* The candidate rows of the feature with the ids id_1 and id_2.
CandidateRows(name, id_1, id_2) ==
    { k \in 1..Len(feature_matches[name].rows) :
        /\ feature_matches[name].rows[k].idx_1 = id_1
        /\ feature_matches[name].rows[k].idx_2 = id_2 }

\* C24: for every processed feature, two rows that have an id give a
\* candidate exactly when their keys for that feature are non-null and
\* equal, whatever their keys for the other features: a row with a null key
\* for one feature gives no candidate for that feature and still gives its
\* candidates for every other feature.
C24_FeaturesIndependent ==
    (call.op = "run" /\ raised = "none") =>
        \A f \in Range(features_processed) :
        \A l \in 1..Len(frame__[1].data) : \A r \in 1..Len(frame__[2].data) :
            LET id_1 == frame__[1].data[l][frame__[1].index]
                id_2 == frame__[2].data[r][frame__[2].index]
            IN  (id_1 # None /\ id_2 # None) =>
                    Cardinality(CandidateRows(f, id_1, id_2))
                        = Cardinality(RowPairs(f, id_1, id_2))

\* A run in which a row with a null key for one processed feature is in a
\* candidate of another feature.
C24_Witness ==
    /\ call.op = "run"
    /\ raised = "none"
    /\ \E f \in Range(features_processed) : \E g \in Range(features_processed) :
       \E l \in 1..Len(frame__[1].data) : \E r \in 1..Len(frame__[2].data) :
          /\ f # g
          /\ frame__[1].data[l][frame__[1].index] # None
          /\ RowKey(f, frame__[1], l) = None
          /\ \A i \in 1..Len(frame__[1].data) :
                frame__[1].data[i][frame__[1].index]
                    = frame__[1].data[l][frame__[1].index] => i = l
          /\ << l, r >> \in RowPairs(g, frame__[1].data[l][frame__[1].index],
                                     frame__[2].data[r][frame__[2].index])
          /\ CandidateRows(f, frame__[1].data[l][frame__[1].index],
                           frame__[2].data[r][frame__[2].index]) = {}
          /\ CandidateRows(g, frame__[1].data[l][frame__[1].index],
                           frame__[2].data[r][frame__[2].index]) # {}

\* Generic corporate stopwords: llc, inc, corp, co, ltd, group, the.
Stopwords ==
    { << "l", "l", "c" >>,
      << "i", "n", "c" >>,
      << "c", "o", "r", "p" >>,
      << "c", "o" >>,
      << "l", "t", "d" >>,
      << "g", "r", "o", "u", "p" >>,
      << "t", "h", "e" >> }

\* A token without a single trailing 's', for a token longer than 2 characters.
Singular(t) ==
    IF Len(t) > 2 /\ t[Len(t)] = "s" THEN Take(t, Len(t) - 1) ELSE t

\* The tokens of a raw value that are no stopword, each without its trailing 's'.
SignificantTokens(x) ==
    LET kept == SelectSeq(Tokens(x), LAMBDA t : t \notin Stopwords)
    IN  [ i \in 1..Len(kept) |-> Singular(kept[i]) ]

\* Two raw values have the same significant tokens, each as many times.
SameSignificantTokens(a, b) ==
    \A t \in Range(SignificantTokens(a)) \cup Range(SignificantTokens(b)) :
        Cardinality({ i \in 1..Len(SignificantTokens(a)) : SignificantTokens(a)[i] = t })
            = Cardinality({ i \in 1..Len(SignificantTokens(b)) : SignificantTokens(b)[i] = t })

\* C25: two raw values that differ only by corporate stopwords or by a
\* trailing 's' of a token get the same key from clean_field.
C25_StopwordsAndPluralIgnored ==
    (trial.fn = "clean_field" /\ Len(trial.vals) >= 2
     /\ SameSignificantTokens(trial.vals[1][1], trial.vals[1][2]))
        => trial.vals[2][1] = trial.vals[2][2]


\* C26: a call of request that has read the proxies runs at most max_retries
\* rounds, exactly one when use_proxy is False; no item that came back with
\* a response in one round is submitted in a later round; next(proxy_iter)
\* never raises StopIteration; what is returned is the list of the
\* responses in the order of the queue; and with _raise the call returns
\* exactly when every item has its response and raises otherwise.
C26_RequestRetriesByRounds ==
    (url.op = "request" /\ url.raised # "JSONDecodeError") =>
        /\ Len(url.rounds) <= url.max_retries
        /\ ~url.use_proxy => url.max_retries = 1
        /\ (~url.use_proxy /\ url.pc = "done") => Len(url.rounds) = 1
        /\ \A i \in 1..Len(url.rounds) : \A j \in 1..Len(url.rounds) :
              i < j => url.rounds[i].succeeded \cap url.rounds[j].submitted = {}
        /\ url.raised # "StopIteration"
        /\ url.pc = "done" =>
              IF url.raised = "none"
              THEN /\ url.returned.kind = "list"
                   /\ Range(url.returned.items) = url.result_dict
                   /\ \A i \in 1..Len(url.returned.items) :
                      \A j \in 1..Len(url.returned.items) :
                         i < j => url.returned.items[i] < url.returned.items[j]
                   /\ url._raise => url.result_dict = 1..url.queue_len
              ELSE url._raise \/ url.result_dict # 1..url.queue_len

\* C27: an assignment to proxies (append_proxies included) on a readable
\* proxies file that does not set the new values leaves a file holding the
\* same set of proxies as before; one that sets them leaves a file holding
\* the new proxies, each once.
C27_SetterKeepsOldValues ==
    [][ IF url'.op \in { "proxies", "append_proxies" } /\ Readable(proxies_file)
        THEN /\ Readable(proxies_file')
             /\ IF url'.set
                THEN /\ Range(proxies_file'[1].list) = Range(url'.value.list)
                     /\ Cardinality(Range(proxies_file'[1].list))
                          = Len(proxies_file'[1].list)
                ELSE Range(proxies_file'[1].list) = Range(proxies_file[1].list)
        ELSE TRUE ]_vars

\* C28: a call of set_df that raises leaves _counter, _names and the Frames
\* as they were, and with them everything a later set_df or run reads.
C28_FailedSetDfChangesNothing ==
    [][ (call'.op = "set_df" /\ raised' # "none") =>
          UNCHANGED << _counter, _names, frame__, exact_domain,
                       features_processed, feature_matches, all_matches,
                       results >> ]_vars

\* A call of set_df with one Frame registered has failed while building its
\* Frame.
C28_Witness ==
    /\ call.op = "set_df"
    /\ raised = "AttributeError"
    /\ _counter = 2
    /\ ~NameTaken(call.name, _names)

\* What holds of a Matcher between calls.
SessionInvariant ==
    /\ _counter \in 1..3
    /\ Len(_names) = _counter - 1
    /\ \A i \in 1..Len(_names) : \A j \in 1..Len(_names) :
          _names[i] = _names[j] => i = j
    /\ DOMAIN frame__ = 1..(_counter - 1)
    /\ \A k \in DOMAIN frame__ : frame__[k].name = _names[k]

\* C29: after any sequence of set_df and run calls _counter is between 1 and
\* 3, _names holds _counter - 1 pairwise distinct names, frame__k exists
\* exactly for k < _counter and is named _names[k-1]; and no call of run
\* changes _counter, _names or a Frame.
C29_SessionInvariant ==
    /\ []SessionInvariant
    /\ [][ call'.op = "run" => UNCHANGED << _counter, _names, frame__ >> ]_vars

\* A run has completed on two registered Frames.
C29_Witness ==
    /\ _counter = 3
    /\ call.op = "run"
    /\ raised = "none"

\* C30: set_df leaves the caller's DataFrame with the rows (and so the
\* column names) it had; the data of a Frame is at any time the caller's
\* rows under the suffixed column names, with no column added and no row
\* dropped; and a call of run leaves the data of both Frames as it was.
C30_InputsNeverModified ==
    /\ [](/\ call.op = "set_df" => call.rows_after = call.rows
          /\ \A k \in DOMAIN frame__ :
                \E data \in Tables :
                   frame__[k].data = AddSuffix(data, frame__[k].name))
    /\ [][ call'.op = "run" =>
             /\ DOMAIN frame__' = DOMAIN frame__
             /\ \A k \in DOMAIN frame__ : frame__'[k].data = frame__[k].data ]_vars

\* A run has completed with a feature for which a row of a Frame has no
\* value: the wrapper has dropped the row from its copy.
C30_Witness ==
    /\ call.op = "run"
    /\ raised = "none"
    /\ \E n \in 1..Len(features_processed) : \E k \in DOMAIN frame__ :
       \E i \in 1..Len(frame__[k].data) :
          frame__[k].data[i][frame__[k][features_processed[n]]] = None
====
